---- MODULE Spec2Model ----
(***************************************************************************)
(* Open-Weather-System (src/app.py): a Flask application with MongoDB       *)
(* persistence and an OpenWeatherMap client.                                *)
(*                                                                          *)
(* Two specifications share the definitions below.                          *)
(*   SpecAgg  the forecast aggregation of get_weekly_forecast, a pure       *)
(*            function of the provider's sample list and of the iteration   *)
(*            order of a Python set of strings.                             *)
(*   Spec     the request handlers, run by several clients whose requests   *)
(*            interleave at the granularity of the database operations.     *)
(*                                                                          *)
(* Units.  Timestamps (item['dt']) are counted in hours, temperatures in    *)
(* tenths of a degree; datetime.now() stamps (created_at, login_time,       *)
(* query_time, timestamp) and the wind speed (round(x, 1) on binary         *)
(* floating point) are left out: no property below reads them.              *)
(***************************************************************************)
EXTENDS Integers, Sequences, FiniteSets, TLC

VARIABLES
    \* ---- forecast aggregation (SpecAgg)
    samples,          \* data['list'] of the provider's forecast response
    aggPc,            \* "list" while the response is built, then "done"
    forecast_list,    \* what get_weekly_forecast returned
    hashOrder,        \* iteration order of a set of description strings
    \* ---- the application (Spec)
    users,            \* mongo.db.users, in insertion order; _id = position
    login_history,    \* mongo.db.login_history
    weather_queries,  \* mongo.db.weather_queries
    session,          \* the session cookie of each client
    pc,               \* where each client's request in flight stands
    local,            \* the locals of the handler of that request
    cityAsked,        \* per user: the city of the last effective update_city
    response          \* the last response the server sent

aggVars == <<samples, aggPc, forecast_list, hashOrder>>
appVars == <<users, login_history, weather_queries, session, pc, local,
             cityAsked, response>>
vars == <<samples, aggPc, forecast_list, hashOrder, users, login_history,
          weather_queries, session, pc, local, cityAsked, response>>

----------------------------------------------------------------------------
(* Bounds of the model.                                                     *)

\* longest sample list whose readings vary freely
MaxShort == 4
\* longest sample list over many calendar dates
MaxLen == 9
\* most samples of such a list that fall on a date already present
MaxRepeats == 1
\* most records the three collections hold together
MaxRecords == 3

----------------------------------------------------------------------------
(* Python helpers.                                                          *)

\* None for a value that is otherwise a record (a snapshot, a user)
None == [none |-> TRUE]

\* None for a value that is otherwise a string (a missing form field)
Missing == "<missing>"

\* Python truthiness of a form value: None and '' are false
Truthy(v) == v # Missing /\ v # ""

SeqToSet(s) == {s[i] : i \in 1..Len(s)}

\* the slice forgotten
TakeAll(s, n) == s

\* s[:n]
Take(s, n) == IF Len(s) <= n THEN s ELSE SubSeq(s, 1, n)

RECURSIVE SeqMax(_)
SeqMax(s) ==
    IF Len(s) = 1 THEN s[1]
    ELSE LET m == SeqMax(Tail(s)) IN IF s[1] >= m THEN s[1] ELSE m

RECURSIVE SeqMin(_)
SeqMin(s) ==
    IF Len(s) = 1 THEN s[1]
    ELSE LET m == SeqMin(Tail(s)) IN IF s[1] <= m THEN s[1] ELSE m

RECURSIVE SeqSum(_)
SeqSum(s) == IF s = <<>> THEN 0 ELSE s[1] + SeqSum(Tail(s))

\* list.count(x)
Count(s, x) == Cardinality({i \in 1..Len(s) : s[i] = x})

\* round(n / d) for integers n and d > 0: Python rounds a half to the even
\* neighbour
RoundDiv(n, d) ==
    LET q == n \div d
        r == n % d
    IN  IF 2 * r < d THEN q
        ELSE IF 2 * r > d THEN q + 1
        ELSE IF q % 2 = 0 THEN q ELSE q + 1

\* round(t) of a temperature held in tenths of a degree
RoundTenths(t) == RoundDiv(t, 10)

----------------------------------------------------------------------------
(* The forecast aggregation of get_weekly_forecast.                         *)

\* the [:7] of the emitted groups
ForecastDays == 7

\* datetime.fromtimestamp(item['dt']).date(), as a day number (local time,
\* dt in hours)
DateOf(dt) == dt \div 24

\* date.strftime('%A, %B %d'): the weekday (day 0 of the epoch is a Thursday)
\* and the month and day, which name the date within one year
DateLabel(d) == [weekday |-> (d + 3) % 7, month_day |-> d]

\* one pass of the loop over data['list']: the insertion-ordered dict
\* daily_forecast is a sequence of entries in first-insertion order
AddItem(daily, item) ==
    LET date == DateOf(item.dt)
        has  == \E i \in 1..Len(daily) : daily[i].date_str = date
        withKey ==
            IF has THEN daily
            ELSE Append(daily, [date_str     |-> date,
                                date         |-> DateLabel(date),
                                temps        |-> <<>>,
                                descriptions |-> <<>>,
                                humidity     |-> <<>>,
                                icon         |-> item.icon])
    IN  [i \in 1..Len(withKey) |->
            IF withKey[i].date_str = date
            THEN [withKey[i] EXCEPT
                    !.temps        = Append(@, item.temp),
                    !.descriptions = Append(@, item.description),
                    !.humidity     = Append(@, item.humidity)]
            ELSE withKey[i]]

RECURSIVE GroupFrom(_, _)
GroupFrom(daily, list) ==
    IF list = <<>> THEN daily
    ELSE GroupFrom(AddItem(daily, Head(list)), Tail(list))

\* the groups kept in date order instead of insertion order
RECURSIVE InsertByDate(_, _)
InsertByDate(sorted, entry) ==
    IF sorted = <<>> THEN <<entry>>
    ELSE IF entry.date_str < Head(sorted).date_str THEN <<entry>> \o sorted
         ELSE <<Head(sorted)>> \o InsertByDate(Tail(sorted), entry)

RECURSIVE SortByDate(_)
SortByDate(daily) ==
    IF daily = <<>> THEN <<>>
    ELSE InsertByDate(SortByDate(Tail(daily)), Head(daily))

DailyForecastSorted(list) == SortByDate(GroupFrom(<<>>, list))

\* daily_forecast after the loop
DailyForecast(list) == GroupFrom(<<>>, list)

\* max(set(descriptions), key=descriptions.count): max keeps the first of the
\* maximal elements in the iteration order of the set, which for a set of
\* strings follows the process's string hashing, not the order of appearance
MostFrequent(descriptions, order) ==
    LET best == {d \in SeqToSet(descriptions) :
                    \A e \in SeqToSet(descriptions) :
                        Count(descriptions, e) <= Count(descriptions, d)}
        pos(d) == CHOOSE i \in 1..Len(order) : order[i] = d
    IN  CHOOSE d \in best : \A e \in best : pos(d) <= pos(e)

DaySummary(day_data, order) ==
    [date        |-> day_data.date,
     temp_max    |-> RoundTenths(SeqMax(day_data.temps)),
     temp_min    |-> RoundTenths(SeqMin(day_data.temps)),
     description |-> MostFrequent(day_data.descriptions, order),
     humidity    |-> RoundDiv(SeqSum(day_data.humidity), Len(day_data.humidity)),
     icon        |-> day_data.icon]

\* forecast_list of a 200 response whose data['list'] is list
Aggregate(list, order) ==
    LET kept == Take(DailyForecast(list), ForecastDays)
    IN  [i \in 1..Len(kept) |-> DaySummary(kept[i], order)]

----------------------------------------------------------------------------
(* SpecAgg: the provider builds a sample list, the aggregation runs on it.  *)

\* condition descriptions of the provider
Descriptions == {"scattered clouds", "light rain"}

\* what one forecast sample reads besides its time
Readings ==
    { [temp |-> 104, description |-> "scattered clouds", humidity |-> 80, icon |-> "03d"],
      [temp |-> 115, description |-> "light rain",       humidity |-> 91, icon |-> "10d"],
      [temp |-> -15, description |-> "light rain",       humidity |-> 86, icon |-> "10n"] }

DefaultReading ==
    [temp |-> 104, description |-> "scattered clouds", humidity |-> 80, icon |-> "03d"]

\* sample times of the short lists: 18:00 and 21:00 of day 0, 00:00 of day 1
ShortTimes == {18, 21, 24}

Sample(dt, r) ==
    [dt |-> dt, temp |-> r.temp, description |-> r.description,
     humidity |-> r.humidity, icon |-> r.icon]

DatesOf(list) == {DateOf(list[i].dt) : i \in 1..Len(list)}

\* the iteration orders a set of descriptions can have: any, as the strings'
\* hashes are salted per process
HashOrders == {o \in [1..Cardinality(Descriptions) -> Descriptions] :
                  \A i, j \in 1..Cardinality(Descriptions) : o[i] = o[j] => i = j}

\* a sample with any reading at one of the short times
AppendSample(dt, r) ==
    /\ aggPc = "list"
    /\ Len(samples) < MaxShort
    /\ \A i \in 1..Len(samples) : samples[i].dt \in ShortTimes
    /\ samples' = Append(samples, Sample(dt, r))
    /\ UNCHANGED <<aggPc, forecast_list, hashOrder>>
    /\ UNCHANGED appVars

\* the dates a further noon sample may have: a date already present, or a new
\* one that continues the list forwards (the day after the latest date, when
\* no date precedes the first sample's) or backwards (the day before the
\* earliest date, when none follows the first sample's)
NextDates(list) ==
    IF list = <<>> THEN {0}
    ELSE LET days == [i \in 1..Len(list) |-> DateOf(list[i].dt)]
         IN  DatesOf(list)
             \cup (IF SeqMin(days) = days[1] THEN {SeqMax(days) + 1} ELSE {})
             \cup (IF SeqMax(days) = days[1] THEN {SeqMin(days) - 1} ELSE {})

\* a noon sample: a new date reads the default reading, a date already present
\* any reading
AppendDate ==
    /\ aggPc = "list"
    /\ Len(samples) < MaxLen
    /\ \A i \in 1..Len(samples) : samples[i].dt % 24 = 12
    /\ \E d \in NextDates(samples), r \in Readings :
           /\ IF d \in DatesOf(samples)
              THEN Len(samples) - Cardinality(DatesOf(samples)) < MaxRepeats
              ELSE r = DefaultReading
           /\ samples' = Append(samples, Sample(24 * d + 12, r))
    /\ UNCHANGED <<aggPc, forecast_list, hashOrder>>
    /\ UNCHANGED appVars

\* get_weekly_forecast on a 200 response carrying the list, in a process whose
\* string hashing iterates the descriptions in the order chosen here
RunAggregate(order) ==
    /\ aggPc = "list"
    /\ aggPc' = "done"
    /\ hashOrder' = order
    /\ forecast_list' = Aggregate(samples, order)
    /\ UNCHANGED samples
    /\ UNCHANGED appVars

InitApp ==
    /\ users = <<>>
    /\ login_history = <<>>
    /\ weather_queries = <<>>
    /\ session = <<>>
    /\ pc = <<>>
    /\ local = <<>>
    /\ cityAsked = <<>>
    /\ response = None

InitAgg ==
    /\ samples = <<>>
    /\ aggPc = "list"
    /\ forecast_list = <<>>
    /\ hashOrder = <<>>
    /\ InitApp

NextAgg ==
    \/ \E dt \in ShortTimes, r \in Readings : AppendSample(dt, r)
    \/ AppendDate
    \/ \E order \in HashOrders : RunAggregate(order)

SpecAgg == InitAgg /\ [][NextAgg]_vars

----------------------------------------------------------------------------
(* The weather client: get_current_weather and get_weekly_forecast around   *)
(* one HTTP GET each.                                                       *)

\* str.capitalize() on the provider's descriptions
Capitalize(s) ==
    CASE s = "scattered clouds" -> "Scattered clouds"
      [] s = "light rain"       -> "Light rain"
      [] OTHER                  -> s

\* the JSON of a 200 answer of /weather for a city
CurrentData(city) ==
    [name    |-> city,
     sys     |-> [country |-> "IN"],
     main    |-> [temp |-> 285, feels_like |-> 305, humidity |-> 60, pressure |-> 1012],
     weather |-> <<[description |-> "light rain", icon |-> "10d"]>>,
     wind    |-> [speed |-> 41]]

\* the data['list'] of a 200 answer of /forecast: two dates, no two
\* descriptions equally frequent on one date
ForecastData ==
    [list |-> << Sample(18, DefaultReading),
                 Sample(24, DefaultReading),
                 Sample(27, [temp |-> 115, description |-> "light rain",
                             humidity |-> 91, icon |-> "10d"]),
                 Sample(30, [temp |-> -15, description |-> "light rain",
                             humidity |-> 86, icon |-> "10n"]) >>]

\* what requests.get(url, params) can come to: an answer with a status code
\* and a JSON body, or an exception
HttpOk(json)   == [raised |-> FALSE, status_code |-> 200, json |-> json]
HttpNotFound   == [raised |-> FALSE, status_code |-> 404,
                   json |-> [cod |-> "404", message |-> "city not found"]]
HttpRaised     == [raised |-> TRUE, status_code |-> 0, json |-> [cod |-> "0"]]

\* a 200 answer whose body lacks the fields read from it
HttpMalformed  == HttpOk([cod |-> "200"])

\* how a GET can end
Outcomes == {"ok", "malformed", "not_found", "raised"}

Answer(outcome, json) ==
    CASE outcome = "ok"        -> HttpOk(json)
      [] outcome = "malformed" -> HttpMalformed
      [] outcome = "not_found" -> HttpNotFound
      [] OTHER                 -> HttpRaised

\* requests.get on /weather and on /forecast for a city
CurrentAnswer(outcome, city) == Answer(outcome, CurrentData(city))
ForecastAnswer(outcome, city) == Answer(outcome, ForecastData)

\* get_current_weather(city), given what the GET came to
get_current_weather(answer) ==
    IF answer.raised THEN None
    ELSE IF answer.status_code = 200
         THEN LET data == answer.json
              IN  IF {"name", "sys", "main", "weather", "wind"} \subseteq DOMAIN data
                  THEN [city        |-> data.name,
                        country     |-> data.sys.country,
                        temperature |-> RoundTenths(data.main.temp),
                        feels_like  |-> RoundTenths(data.main.feels_like),
                        description |-> Capitalize(data.weather[1].description),
                        icon        |-> data.weather[1].icon,
                        humidity    |-> data.main.humidity,
                        pressure    |-> data.main.pressure,
                        wind_speed  |-> data.wind.speed]
                  ELSE None
         ELSE None

\* get_weekly_forecast(city), given what the GET came to
get_weekly_forecast(answer, order) ==
    IF answer.raised THEN <<>>
    ELSE IF answer.status_code = 200
         THEN IF "list" \in DOMAIN answer.json
              THEN Aggregate(answer.json.list, order)
              ELSE <<>>
         ELSE <<>>

\* the two GETs of one lookup, as the request parameters sent
ProviderCalls(city) ==
    << [endpoint |-> "weather", q |-> city], [endpoint |-> "forecast", q |-> city] >>

----------------------------------------------------------------------------
(* Credentials, sessions, documents.                                        *)

\* werkzeug's generate_password_hash and check_password_hash: the stored
\* value is a digest, never the password
generate_password_hash(password) == [pbkdf2 |-> password]
\* the hash never compared
check_password_hash_any(pwhash, password) == TRUE

check_password_hash(pwhash, password) == pwhash = generate_password_hash(password)

\* str(user['_id']) and ObjectId(session['user_id']); an _id is the document's
\* position in the collection
StrOfId(id) == <<"oid", id>>
ObjectId(str) == str[2]

\* 'user_id' in session
LoggedIn(sess) == "user_id" \in DOMAIN sess

\* the decorator missing on the API view
login_required_not_api(sess, view) == view = "api_weather" \/ LoggedIn(sess)

\* login_required, per decorated view: TRUE when the view runs
login_required(sess, view) == LoggedIn(sess)

EmptySession == <<>>

\* insert_one
InsertOne(collection, doc) == Append(collection, doc)

user_data(form) ==
    [username    |-> form.username,
     email       |-> form.email,
     password    |-> generate_password_hash(form.password),
     city        |-> IF form.city = Missing THEN "Your city" ELSE form.city,
     preferences |-> [units |-> "metric", notifications |-> TRUE]]

\* find_one({'$or': [{'username': ...}, {'email': ...}]}) found a document
existing_user(form) ==
    \E i \in 1..Len(users) :
        users[i].username = form.username \/ users[i].email = form.email

\* the forecast left out of the document
WeatherQueryDocNoForecast(uid, city, current_weather, forecast) ==
    [user_id |-> uid, city |-> city,
     weather_data |-> current_weather, forecast |-> <<>>]

WeatherQueryDoc(uid, city, current_weather, forecast) ==
    [user_id |-> uid, city |-> city,
     weather_data |-> current_weather, forecast |-> forecast]

\* the insert made whatever the snapshot
record_query_always(queries, uid, city, current_weather, forecast) ==
    InsertOne(queries, WeatherQueryDoc(uid, city, current_weather, forecast))

\* if current_weather: weather_queries.insert_one(...)
record_query(queries, uid, city, current_weather, forecast) ==
    IF current_weather # None
    THEN InsertOne(queries, WeatherQueryDoc(uid, city, current_weather, forecast))
    ELSE queries

\* the update matching no document
set_city_nowhere(collection, id, city) == collection

\* update_one({'_id': id}, {'$set': {'city': city}})
set_city(collection, id, city) == [collection EXCEPT ![id].city = city]

\* find({'user_id': ...}).sort('query_time', -1).limit(20)
HistoryLimit == 20

RECURSIVE NewestFirst(_, _)
NewestFirst(queries, uid) ==
    IF queries = <<>> THEN <<>>
    ELSE LET last == queries[Len(queries)]
             rest == NewestFirst(SubSeq(queries, 1, Len(queries) - 1), uid)
         IN  IF last.user_id = uid THEN <<last>> \o rest ELSE rest

\* flash(message, category); the message is a sequence of its parts
Flash(category, message) == [category |-> category, message |-> message]
NoFlash == Flash("", <<>>)

LoginWarning == Flash("warning", <<"Please login to access this page">>)
InvalidLogin == Flash("danger", <<"Invalid username or password">>)

\* a response: the view, redirect or render or json, where to, what was
\* flashed, the provider calls made while handling it, and the data rendered
Reply(view, kind, target, flash, calls, body) ==
    [view |-> view, kind |-> kind, target |-> target, flash |-> flash,
     calls |-> calls, body |-> body]

\* what login_required answers when 'user_id' is not in the session
RedirectToLogin(view) == Reply(view, "redirect", "login", LoginWarning, <<>>, None)

----------------------------------------------------------------------------
(* The views.  A client has one request in flight at a time; a view that    *)
(* reads the database and later writes it takes one step per part, so that  *)
(* the requests of different clients interleave between the two.            *)

Clients == {"10.0.0.1", "10.0.0.2"}

Idle(c) == pc[c] = "idle" /\ response = None

InFlight(at) == Cardinality({c \in Clients : pc[c] = at})

\* the records stored, with those the requests in flight are about to insert
StoreSize ==
    Len(users) + Len(login_history) + Len(weather_queries)
    + InFlight("register_insert") + InFlight("dashboard_fetch")

Respond(c, reply) ==
    /\ response' = reply
    /\ pc' = [pc EXCEPT ![c] = "idle"]
    /\ local' = [local EXCEPT ![c] = None]

\* the response leaves the server
send_response ==
    /\ response # None
    /\ response' = None
    /\ UNCHANGED <<users, login_history, weather_queries, session, pc, local, cityAsked>>
    /\ UNCHANGED aggVars

\* GET /
index(c) ==
    /\ Idle(c)
    /\ Respond(c, IF LoggedIn(session[c])
                  THEN Reply("index", "redirect", "dashboard", NoFlash, <<>>, None)
                  ELSE Reply("index", "render", "index.html", NoFlash, <<>>, None))
    /\ UNCHANGED <<users, login_history, weather_queries, session, cityAsked>>
    /\ UNCHANGED aggVars

\* GET /register and GET /login
register_get(c) ==
    /\ Idle(c)
    /\ Respond(c, Reply("register", "render", "register.html", NoFlash, <<>>, None))
    /\ UNCHANGED <<users, login_history, weather_queries, session, cityAsked>>
    /\ UNCHANGED aggVars

login_get(c) ==
    /\ Idle(c)
    /\ Respond(c, Reply("login", "render", "login.html", NoFlash, <<>>, None))
    /\ UNCHANGED <<users, login_history, weather_queries, session, cityAsked>>
    /\ UNCHANGED aggVars

\* POST /register, up to the answer of find_one
register(c, form) ==
    /\ Idle(c)
    /\ IF existing_user(form)
       THEN Respond(c, Reply("register", "redirect", "register",
                             Flash("danger", <<"Username or email already exists">>),
                             <<>>, None))
       ELSE /\ StoreSize < MaxRecords
            /\ pc' = [pc EXCEPT ![c] = "register_insert"]
            /\ local' = [local EXCEPT ![c] = [user_data |-> user_data(form)]]
            /\ UNCHANGED response
    /\ UNCHANGED <<users, login_history, weather_queries, session, cityAsked>>
    /\ UNCHANGED aggVars

\* POST /register, from insert_one on
register_insert(c) ==
    /\ pc[c] = "register_insert"
    /\ response = None
    /\ users' = InsertOne(users, local[c].user_data)
    /\ cityAsked' = Append(cityAsked, Missing)
    /\ Respond(c, Reply("register", "redirect", "login",
                        Flash("success", <<"Registration successful! Please login.">>),
                        <<>>, None))
    /\ UNCHANGED <<login_history, weather_queries, session>>
    /\ UNCHANGED aggVars

\* the session and the LoginEvent of a successful login as user id
LoginAs(c, id) ==
    /\ StoreSize < MaxRecords
    /\ session' = [session EXCEPT ![c] =
                      [user_id  |-> StrOfId(id),
                       username |-> users[id].username,
                       city     |-> users[id].city]]
    /\ login_history' = InsertOne(login_history, [user_id |-> id, ip_address |-> c])
    /\ Respond(c, Reply("login", "redirect", "dashboard",
                        Flash("success", <<"Login successful!">>), <<>>, None))

LoginFails(c) ==
    /\ Respond(c, Reply("login", "render", "login.html", InvalidLogin, <<>>, None))
    /\ UNCHANGED <<session, login_history>>

\* POST /login; find_one({'username': ...}) answers one of the documents that
\* match, or None
login(c, form) ==
    /\ Idle(c)
    /\ LET found == {i \in 1..Len(users) : users[i].username = form.username}
       IN  IF found = {} THEN LoginFails(c)
           ELSE \E id \in found :
                   IF check_password_hash(users[id].password, form.password)
                   THEN LoginAs(c, id)
                   ELSE LoginFails(c)
    /\ UNCHANGED <<users, weather_queries, cityAsked>>
    /\ UNCHANGED aggVars

\* GET /logout
logout(c) ==
    /\ Idle(c)
    /\ session' = [session EXCEPT ![c] = EmptySession]
    /\ Respond(c, Reply("logout", "redirect", "index",
                        Flash("info", <<"You have been logged out">>), <<>>, None))
    /\ UNCHANGED <<users, login_history, weather_queries, cityAsked>>
    /\ UNCHANGED aggVars

\* GET /dashboard, up to the answer of find_one
dashboard(c) ==
    /\ Idle(c)
    /\ IF login_required(session[c], "dashboard")
       THEN LET id   == ObjectId(session[c].user_id)
                user == users[id]
            IN  /\ StoreSize < MaxRecords
                /\ pc' = [pc EXCEPT ![c] = "dashboard_fetch"]
                /\ local' = [local EXCEPT ![c] =
                                [user |-> user, city |-> user.city,
                                 asked |-> cityAsked[id]]]
                /\ UNCHANGED response
       ELSE Respond(c, RedirectToLogin("dashboard"))
    /\ UNCHANGED <<users, login_history, weather_queries, session, cityAsked>>
    /\ UNCHANGED aggVars

\* GET /dashboard, from the provider calls on; current and forecast are how
\* the two GETs end
dashboard_fetch(c, current, forecast) ==
    /\ pc[c] = "dashboard_fetch"
    /\ response = None
    /\ LET city            == local[c].city
           current_weather == get_current_weather(CurrentAnswer(current, city))
           forecast_       == get_weekly_forecast(ForecastAnswer(forecast, city), hashOrder)
       IN  /\ weather_queries' =
                 record_query(weather_queries, ObjectId(session[c].user_id), city,
                              current_weather, forecast_)
           /\ Respond(c, Reply("dashboard", "render", "dashboard.html", NoFlash,
                               ProviderCalls(city),
                               [user |-> local[c].user,
                                current_weather |-> current_weather,
                                forecast |-> forecast_]))
    /\ UNCHANGED <<users, login_history, session, cityAsked>>
    /\ UNCHANGED aggVars

\* POST /update_city
update_city(c, city) ==
    /\ Idle(c)
    /\ IF login_required(session[c], "update_city")
       THEN LET id == ObjectId(session[c].user_id)
            IN  IF Truthy(city)
                THEN /\ users' = set_city(users, id, city)
                     /\ session' = [session EXCEPT ![c].city = city]
                     /\ cityAsked' = [cityAsked EXCEPT ![id] = city]
                     /\ Respond(c, Reply("update_city", "redirect", "dashboard",
                                         Flash("success", <<"City updated to ", city>>),
                                         <<>>, None))
                ELSE /\ Respond(c, Reply("update_city", "redirect", "dashboard",
                                         NoFlash, <<>>, None))
                     /\ UNCHANGED <<users, session, cityAsked>>
       ELSE /\ Respond(c, RedirectToLogin("update_city"))
            /\ UNCHANGED <<users, session, cityAsked>>
    /\ UNCHANGED <<login_history, weather_queries>>
    /\ UNCHANGED aggVars

\* GET /weather_history
weather_history(c) ==
    /\ Idle(c)
    /\ Respond(c, IF login_required(session[c], "weather_history")
                  THEN Reply("weather_history", "render", "history.html", NoFlash, <<>>,
                             [history |->
                                Take(NewestFirst(weather_queries,
                                                 ObjectId(session[c].user_id)),
                                     HistoryLimit)])
                  ELSE RedirectToLogin("weather_history"))
    /\ UNCHANGED <<users, login_history, weather_queries, session, cityAsked>>
    /\ UNCHANGED aggVars

\* GET /api/weather/<city>
api_weather(c, city, current, forecast) ==
    /\ Idle(c)
    /\ Respond(c, IF login_required(session[c], "api_weather")
                  THEN Reply("api_weather", "json", "", NoFlash, ProviderCalls(city),
                             [current  |-> get_current_weather(CurrentAnswer(current, city)),
                              forecast |-> get_weekly_forecast(ForecastAnswer(forecast, city),
                                                               hashOrder)])
                  ELSE RedirectToLogin("api_weather"))
    /\ UNCHANGED <<users, login_history, weather_queries, session, cityAsked>>
    /\ UNCHANGED aggVars

\* GET /profile
profile(c) ==
    /\ Idle(c)
    /\ Respond(c, IF login_required(session[c], "profile")
                  THEN LET id == ObjectId(session[c].user_id)
                       IN  Reply("profile", "render", "profile.html", NoFlash, <<>>,
                                 [user |-> users[id],
                                  query_count |->
                                     Cardinality({i \in 1..Len(weather_queries) :
                                                     weather_queries[i].user_id = id})])
                  ELSE RedirectToLogin("profile"))
    /\ UNCHANGED <<users, login_history, weather_queries, session, cityAsked>>
    /\ UNCHANGED aggVars

\* POST /update_preferences
update_preferences(c, form) ==
    /\ Idle(c)
    /\ IF login_required(session[c], "update_preferences")
       THEN LET id            == ObjectId(session[c].user_id)
                units         == IF form.units = Missing THEN "metric" ELSE form.units
                notifications == form.notifications = "on"
            IN  /\ users' = [users EXCEPT
                                ![id].preferences.units = units,
                                ![id].preferences.notifications = notifications]
                /\ Respond(c, Reply("update_preferences", "redirect", "profile",
                                    Flash("success", <<"Preferences updated successfully">>),
                                    <<>>, None))
       ELSE /\ Respond(c, RedirectToLogin("update_preferences"))
            /\ UNCHANGED users
    /\ UNCHANGED <<login_history, weather_queries, session, cityAsked>>
    /\ UNCHANGED aggVars

----------------------------------------------------------------------------
(* Spec: the requests the clients send.                                     *)

Usernames == {"alice", "bob"}
Passwords == {"pw-a", "pw-b"}

\* alice, bob, and a second bob who gives alice's email
RegisterForms ==
    {[username |-> "alice", email |-> "alice@example.org", password |-> "pw-a", city |-> "Pune"],
     [username |-> "bob", email |-> "bob@example.org", password |-> "pw-b", city |-> Missing],
     [username |-> "bob", email |-> "alice@example.org", password |-> "pw-a", city |-> "Pune"]}
LoginForms == [username : Usernames, password : Passwords]
CityForms == {"Paris", "", Missing}
ApiCities == {"Atlantis"}
PreferenceForms ==
    {[units |-> "kelvin", notifications |-> Missing],
     [units |-> Missing, notifications |-> "on"]}

Init ==
    /\ samples = <<>>
    /\ aggPc = "idle"
    /\ forecast_list = <<>>
    \* ForecastData has no two equally frequent descriptions on one date, so
    \* the iteration order of set() cannot change a forecast served here; the
    \* order is free in SpecAgg, where ties occur.
    /\ hashOrder = <<"light rain", "scattered clouds">>
    /\ users = <<>>
    /\ login_history = <<>>
    /\ weather_queries = <<>>
    /\ session = [c \in Clients |-> EmptySession]
    /\ pc = [c \in Clients |-> "idle"]
    /\ local = [c \in Clients |-> None]
    /\ cityAsked = <<>>
    /\ response = None

Next ==
    \/ send_response
    \/ \E c \in Clients :
        \/ index(c)
        \/ register_get(c)
        \/ login_get(c)
        \/ \E form \in RegisterForms : register(c, form)
        \/ register_insert(c)
        \/ \E form \in LoginForms : login(c, form)
        \/ logout(c)
        \/ dashboard(c)
        \/ \E current, forecast \in Outcomes : dashboard_fetch(c, current, forecast)
        \/ \E city \in CityForms : update_city(c, city)
        \/ weather_history(c)
        \/ \E city \in ApiCities, current, forecast \in Outcomes :
              api_weather(c, city, current, forecast)
        \/ profile(c)
        \/ \E form \in PreferenceForms : update_preferences(c, form)

Spec == Init /\ [][Next]_vars

----------------------------------------------------------------------------
(* Properties of the aggregation, checked under SpecAgg.                    *)

\* the samples of the list that fall on date d
SamplesOn(d) == {j \in 1..Len(samples) : DateOf(samples[j].dt) = d}

\* the position of the first sample of date d
FirstIndex(d) == CHOOSE j \in SamplesOn(d) : \A k \in SamplesOn(d) : j <= k

\* the place of date d among the dates in order of first appearance
Rank(d) == 1 + Cardinality({e \in DatesOf(samples) : FirstIndex(e) < FirstIndex(d)})

\* the descriptions of the samples of date d, in list order
RECURSIVE DescriptionsOn(_, _)
DescriptionsOn(d, list) ==
    IF list = <<>> THEN <<>>
    ELSE IF DateOf(Head(list).dt) = d
         THEN <<Head(list).description>> \o DescriptionsOn(d, Tail(list))
         ELSE DescriptionsOn(d, Tail(list))

\* C6: the aggregation returns at most 7 daily summaries, each with
\* temp_max >= temp_min, and with temp_max = temp_min for a date that has
\* exactly one sample.
C6_AtMostSevenAndMaxAboveMin ==
    aggPc = "done" =>
        /\ Len(forecast_list) <= 7
        /\ \A i \in 1..Len(forecast_list) :
              /\ forecast_list[i].temp_max >= forecast_list[i].temp_min
              /\ Cardinality(SamplesOn(forecast_list[i].date.month_day)) = 1
                    => forecast_list[i].temp_max = forecast_list[i].temp_min

\* C6 witness: a list of more than 7 dates was aggregated into 7 summaries,
\* one of them of a date with two samples of different temperature and one of
\* a date with a single sample.
C6_Witness ==
    /\ aggPc = "done"
    /\ Cardinality(DatesOf(samples)) > 7
    /\ Len(forecast_list) = 7
    /\ \E i \in 1..7 : forecast_list[i].temp_max > forecast_list[i].temp_min
    /\ \E i \in 1..7 : Cardinality(SamplesOn(forecast_list[i].date.month_day)) = 1

\* C7: each summary's description is the most frequent description of its
\* date's samples and, among equally frequent ones, the one that appears
\* first in the date's samples.
C7_EarliestMostFrequentWins ==
    aggPc = "done" =>
        \A i \in 1..Len(forecast_list) :
            LET ds  == DescriptionsOn(forecast_list[i].date.month_day, samples)
                win == forecast_list[i].description
                at(x) == CHOOSE j \in 1..Len(ds) :
                            ds[j] = x /\ \A k \in 1..Len(ds) : ds[k] = x => j <= k
            IN  /\ win \in SeqToSet(ds)
                /\ \A e \in SeqToSet(ds) :
                      \/ Count(ds, e) < Count(ds, win)
                      \/ Count(ds, e) = Count(ds, win) /\ at(win) <= at(e)

\* C8: the summaries are those of the first 7 distinct dates of the list, one
\* per date, in the order in which the dates first appear.
C8_FirstSevenDatesInFirstSeenOrder ==
    aggPc = "done" =>
        /\ Len(forecast_list) =
              (IF Cardinality(DatesOf(samples)) < 7
               THEN Cardinality(DatesOf(samples)) ELSE 7)
        /\ \A d \in DatesOf(samples) :
              Rank(d) <= 7 => forecast_list[Rank(d)].date = DateLabel(d)

\* C8 witness: more than 7 dates, first seen in descending order, one of them
\* with samples that are not contiguous in the list.
C8_Witness ==
    /\ aggPc = "done"
    /\ Cardinality(DatesOf(samples)) > 7
    /\ Len(forecast_list) = 7
    /\ DateOf(samples[2].dt) < DateOf(samples[1].dt)
    /\ \E j, k, l \in 1..Len(samples) :
          /\ j < k /\ k < l
          /\ DateOf(samples[j].dt) = DateOf(samples[l].dt)
          /\ DateOf(samples[j].dt) # DateOf(samples[k].dt)

----------------------------------------------------------------------------
(* Properties of the application, checked under Spec.                       *)

Last(s) == s[Len(s)]

Anonymous(c) == "user_id" \notin DOMAIN session[c]

StoreUnchanged ==
    /\ users' = users
    /\ login_history' = login_history
    /\ weather_queries' = weather_queries

\* C1: no two User records share a username, and no two share an email.
C1_UniqueUsernameAndEmail ==
    \A i, j \in 1..Len(users) :
        i # j => /\ users[i].username # users[j].username
                 /\ users[i].email # users[j].email

\* this step answers a request to the view
\* (DashboardEnds, ApiLookupEnds: a lookup by client c ends, the dashboard's
\* second part or an API lookup by a logged-in client)
Answered(view) == response = None /\ response' # None /\ response'.view = view

DashboardEnds(c) ==
    /\ Answered("dashboard")
    /\ \E current, forecast \in Outcomes : dashboard_fetch(c, current, forecast)

ApiLookupEnds(c) ==
    /\ Answered("api_weather")
    /\ ~Anonymous(c)
    /\ \E city \in ApiCities, current, forecast \in Outcomes :
          api_weather(c, city, current, forecast)

\* exactly one WeatherQuery of client c's user is appended, carrying the
\* snapshot and the forecast of the response
OneQueryAppended(c) ==
    /\ Len(weather_queries') = Len(weather_queries) + 1
    /\ SubSeq(weather_queries', 1, Len(weather_queries)) = weather_queries
    /\ Last(weather_queries').user_id = session[c].user_id[2]
    /\ Last(weather_queries').city = response'.calls[1].q
    /\ \/ /\ response'.view = "dashboard"
          /\ Last(weather_queries').weather_data = response'.body.current_weather
          /\ Last(weather_queries').forecast = response'.body.forecast
       \/ /\ response'.view = "api_weather"
          /\ Last(weather_queries').weather_data = response'.body.current
          /\ Last(weather_queries').forecast = response'.body.forecast

ProtectedRequest(c) ==
    /\ response = None
    /\ pc[c] = "idle"
    /\ \/ dashboard(c)
       \/ \E city \in CityForms : update_city(c, city)
       \/ weather_history(c)
       \/ \E city \in ApiCities, current, forecast \in Outcomes :
             api_weather(c, city, current, forecast)
       \/ profile(c)
       \/ \E form \in PreferenceForms : update_preferences(c, form)

\* C3: a request to a protected view from a session without user_id is
\* answered by a redirect to login with a warning, makes no provider call,
\* changes no collection and leaves the session as it was.
C3_AnonymousIsRedirected ==
    [][\A c \in Clients :
          (Anonymous(c) /\ ProtectedRequest(c)) =>
              /\ response'.kind = "redirect"
              /\ response'.target = "login"
              /\ response'.flash.category = "warning"
              /\ response'.calls = <<>>
              /\ StoreUnchanged
              /\ session' = session
              /\ pc'[c] = "idle"]_vars

\* C3 witness: with users registered and nobody logged in, a request to a
\* protected view has been answered by the redirect to login.
C3_Witness ==
    /\ response # None
    /\ response.view \in {"dashboard", "update_city", "weather_history",
                          "api_weather", "profile", "update_preferences"}
    /\ response.target = "login"
    /\ response.flash.category = "warning"
    /\ users # <<>>
    /\ \A c \in Clients : Anonymous(c)

\* some User has this username and a password hash made from this password
ValidCredentials(form) ==
    \E i \in 1..Len(users) :
        /\ users[i].username = form.username
        /\ users[i].password = generate_password_hash(form.password)

C5_FailedFetchWritesNothing ==
    [][/\ Answered("dashboard") =>
             \A c \in Clients, current \in Outcomes \ {"ok"}, forecast \in Outcomes :
                dashboard_fetch(c, current, forecast) =>
                    /\ response'.body.current_weather = None
                    /\ weather_queries' = weather_queries
       /\ Answered("api_weather") =>
             \A c \in Clients, current \in Outcomes \ {"ok"}, forecast \in Outcomes :
                \A city \in ApiCities :
                    (~Anonymous(c) /\ api_weather(c, city, current, forecast)) =>
                        /\ response'.body.current = None
                        /\ weather_queries' = weather_queries]_vars

\* C5 witness: a dashboard view has been answered after the provider calls
\* without a snapshot, and no WeatherQuery exists.
C5_Witness ==
    /\ response # None
    /\ response.view = "dashboard"
    /\ response.calls # <<>>
    /\ response.body.current_weather = None
    /\ weather_queries = <<>>

\* C9: a dashboard view of a user whose last effective update_city asked for
\* city x queries the provider with x and records x in the WeatherQuery it
\* writes; an update_city with an empty or missing city leaves the users
\* collection as it was.
C9_UpdatedCityIsQueried ==
    [][\A c \in Clients :
          /\ \A current, forecast \in Outcomes :
                (Answered("dashboard") /\ dashboard_fetch(c, current, forecast)
                    /\ local[c].asked # Missing) =>
                    /\ \A k \in 1..Len(response'.calls) :
                          response'.calls[k].q = local[c].asked
                    /\ Len(response'.calls) = 2
                    /\ weather_queries' # weather_queries =>
                          Last(weather_queries').city = local[c].asked
          /\ \A city \in {"", Missing} :
                (Answered("update_city") /\ update_city(c, city)) => users' = users]_vars

\* C9 witness: after an update_city to Paris a dashboard view has queried the
\* provider with Paris and recorded Paris.
C9_Witness ==
    /\ response # None
    /\ response.view = "dashboard"
    /\ response.kind = "render"
    /\ response.calls[1].q = "Paris"
    /\ weather_queries # <<>>
    /\ Last(weather_queries).city = "Paris"
    /\ \E i \in 1..Len(cityAsked) : cityAsked[i] = "Paris"

\* C10: every User's unit system is metric or imperial and its notifications
\* value is a boolean.
C10_PreferencesWellFormed ==
    \A i \in 1..Len(users) :
        /\ users[i].preferences.units \in {"metric", "imperial"}
        /\ users[i].preferences.notifications \in BOOLEAN

====
